---- MODULE Spec2Model ----
(***************************************************************************)
(* State-machine model of the TTS daemon (src/tts_daemon.py): the asyncio  *)
(* tasks of one daemon process (run(), maintain_connection(), and one      *)
(* handle_client() task per accepted connection), the Live API session     *)
(* they share, the configuration document and the audio cache; the process *)
(* around them (main(), the signal handlers, shutdown() and the PID and    *)
(* socket files); the StreamingAudioPlayer sink; the pure functions        *)
(* load_config, speak()'s text normalisation and get_cache_path; and the   *)
(* hook client (src/speak_hook.py).  Each part has its own specification.  *)
(*                                                                         *)
(* Strings are sequences of one-character strings, so that strip, slicing  *)
(* and the f-string that composes the cache key are computed as the code   *)
(* computes them.  An atomic action is the code between two await points   *)
(* of one task: asyncio runs a task without interruption up to its next    *)
(* await.                                                                  *)
(***************************************************************************)
EXTENDS Integers, Sequences, FiniteSets, TLC

(***************************************************************************)
(* Bounds of the model.                                                    *)
(***************************************************************************)
\* connect attempts (context managers created) in one run of the daemon
MaxConnects == 2
\* requests with text accepted in one run of the daemon
MaxRequests == 2
\* audio chunks delivered in one turn
MaxChunks == 2
\* rewrites of the configuration document in one run of the daemon
MaxEdits == 1

(***************************************************************************)
(* Text.                                                                   *)
(***************************************************************************)
\* Python's None, as a value comparable with texts; an f-string renders it
\* as the four characters N o n e
None == <<"None">>

Fmt(v) ==
    IF v = None THEN <<"N", "o", "n", "e">> ELSE v

IsSpace(c) ==
    c \in {" ", "\n", "\t"}

RECURSIVE LStrip(_)
LStrip(s) ==
    IF s # <<>> /\ IsSpace(Head(s)) THEN LStrip(Tail(s)) ELSE s

RECURSIVE RStrip(_)
RStrip(s) ==
    IF s # <<>> /\ IsSpace(s[Len(s)]) THEN RStrip(SubSeq(s, 1, Len(s) - 1)) ELSE s

\* str.strip()
Strip(s) ==
    RStrip(LStrip(s))

\* text[:n]
Prefix(s, n) ==
    SubSeq(s, 1, IF Len(s) < n THEN Len(s) ELSE n)

\* a join that puts each chunk in front of the ones before it
RECURSIVE JoinFront(_)
JoinFront(chunks) ==
    IF chunks = <<>> THEN <<>> ELSE JoinFront(Tail(chunks)) \o Head(chunks)

\* b''.join(chunks)
RECURSIVE Join(_)
Join(chunks) ==
    IF chunks = <<>> THEN <<>> ELSE Head(chunks) \o Join(Tail(chunks))

Min(a, b) ==
    IF a < b THEN a ELSE b

(***************************************************************************)
(* Presets and configuration.                                              *)
(***************************************************************************)
Aoede == <<"A", "o", "e", "d", "e">>
Kore == <<"K", "o", "r", "e">>
asmr == <<"a", "s", "m", "r">>
mine == <<"m", "i", "n", "e">>
summary == <<"s", "u", "m", "m", "a", "r", "y">>
russian == <<"r", "u", "s", "s", "i", "a", "n">>

\* keys of the STYLES preset table (the model's documents use asmr only)
STYLES == {asmr, <<"n", "e", "u", "t", "r", "a", "l">>,
           <<"e", "n", "e", "r", "g", "e", "t", "i", "c">>}

\* the empty mapping {}
EmptyMap == [k \in {} |-> None]

DEFAULT_CONFIG ==
    [mode |-> summary, voice |-> Aoede, style |-> asmr, language |-> russian,
     max_chars |-> 1000, custom_styles |-> EmptyMap]

\* dict.get(key), None when the key is missing
Get(d, k) ==
    IF k \in DOMAIN d THEN d[k] ELSE None

\* {**DEFAULT_CONFIG, **config}
Merge(base, over) ==
    [k \in DOMAIN base \cup DOMAIN over |->
        IF k \in DOMAIN over THEN over[k] ELSE base[k]]

\* Contents of the configuration document the model draws from: valid JSON
\* objects holding a subset of the keys.
DocDefault == [k \in {} |-> None]
DocKore == [voice |-> Kore]
DocMineX == [style |-> mine, custom_styles |-> (mine :> <<"x">>)]
DocMineY == [style |-> mine, custom_styles |-> (mine :> <<"y">>)]
\* the defaults but for max_chars and a custom style that is not selected
DocOther == [max_chars |-> 1, custom_styles |-> (mine :> <<"x">>)]

Docs ==
    {DocDefault, DocKore, DocMineX, DocMineY, DocOther}

\* the documents the daemon is started with
InitDocs ==
    {DocDefault, DocMineX}

\* load_config(): the document merged over the defaults
load_config(doc) ==
    Merge(DEFAULT_CONFIG, doc)

\* self.current_config before the first connect
NoConfig == [none |-> TRUE]

\* the style fragment build_instruction puts into the system instruction
ResolvedStyle(config) ==
    IF config.style \in STYLES THEN config.style
    ELSE Get(config.custom_styles, config.style)

\* what shapes a session: the four options and the resolved style text
SessionShape(config) ==
    <<config.voice, config.style, config.mode, config.language, ResolvedStyle(config)>>

\* a config_changed that compares the whole configuration
ConfigChangedWhole(cur, new) ==
    cur # new

\* config_changed(new_config) against self.current_config
ConfigChanged(cur, new) ==
    IF cur = NoConfig THEN TRUE
    ELSE IF \E key \in {"voice", "style", "mode", "language"} : cur[key] # new[key]
         THEN TRUE
    ELSE IF new.style \notin STYLES
            /\ Get(cur.custom_styles, new.style) # Get(new.custom_styles, new.style)
         THEN TRUE
    ELSE FALSE

\* a cache key that also takes in the custom style table's entry
get_cache_path_custom(text, config) ==
    text \o <<":">> \o Fmt(Get(config, "voice")) \o <<":">> \o Fmt(Get(config, "style"))
         \o <<":">> \o Fmt(Get(config, "mode")) \o <<":">> \o Fmt(Get(config, "language"))
         \o <<":">> \o Fmt(Get(config.custom_styles, mine))

\* the string get_cache_path hashes; the digest is modelled as this string
\* itself (distinct strings give distinct paths, up to hash strength)
get_cache_path(text, config) ==
    text \o <<":">> \o Fmt(Get(config, "voice")) \o <<":">> \o Fmt(Get(config, "style"))
         \o <<":">> \o Fmt(Get(config, "mode")) \o <<":">> \o Fmt(Get(config, "language"))

(***************************************************************************)
(* Audio.                                                                  *)
(***************************************************************************)
SAMPLE_RATE == 24000
CHANNELS == 1
SAMPLE_WIDTH == 2

\* chunks of PCM bytes a response part can carry (inline_data.data)
Chunks == {<<1>>, <<2, 3>>}

\* StreamingAudioPlayer.feed: the chunk is put at the end of the player's queue
Feed(queue, pcm_data) ==
    Append(queue, pcm_data)

\* save_audio: the WAV written at a cache path
Wav(pcm_data) ==
    [nchannels |-> CHANNELS, sampwidth |-> SAMPLE_WIDTH,
     framerate |-> SAMPLE_RATE, frames |-> pcm_data]

\* the file a save_audio that raised leaves behind, when wave.open had created
\* it: empty or cut short, not readable as a WAV
Unreadable == [unreadable |-> TRUE]

(***************************************************************************)
(* State.                                                                  *)
(***************************************************************************)
Handlers == {"h1", "h2"}

VARIABLES
    configDoc,          \* content of CONFIG_PATH (edited by the user at any time)
    running,            \* self.running
    session,            \* self.session: 0 (None) or the id of the entered connection
    session_cm,         \* self.session_cm: 0 (None) or the id of a context manager
    current_config,     \* self.current_config
    reconnect_delay,    \* self.reconnect_delay
    cms,                \* every context manager created by live.connect(), by id
    pcRun,              \* position of run()
    runCm,              \* the context manager run()'s initial connect is entering
    pcLoop,             \* position of maintain_connection()
    loopCm,             \* the context manager the loop's connect is entering
    loopDelay,          \* the argument of the sleep the loop is in
    handler,            \* per accepted connection: position and locals of its task;
                        \* history fields: stream (the audio chunks the session
                        \* delivered), differs and old (what the request found:
                        \* whether its configuration differed from the recorded
                        \* one, and the session), served (an equal request had
                        \* completed), result
    cache,              \* CACHE_DIR: cache path -> WAV written there
    nRequests,          \* requests with text accepted so far
    nEdits,             \* rewrites of the configuration document so far
    completed,          \* history: requests that were synthesized and cached
    loopFails,          \* history: consecutive failed connects of run()/the loop
    lastGap,            \* history: seconds slept between the last two of them
    slept,              \* history: seconds slept since the last of them
    proc,               \* position of the daemon process: main(), then asyncio.run
    apiKey,             \* GEMINI_API_KEY is set in the environment
    pidFile,            \* PID_FILE: absent, or what the pid it holds names
    sockNode,           \* SOCKET_PATH: absent, or who bound the node
    found,              \* history: PID_FILE and SOCKET_PATH as the launch found them
    exitCode,           \* exit status of the daemon process, once it has exited
    pcShut,             \* position of the shutdown() task
    shutCm,             \* the context manager shutdown() is exiting
    sink,               \* one StreamingAudioPlayer
    device,             \* history: what the output stream of the sink was given
    hook,               \* one run of the hook client (src/speak_hook.py)
    cfgFile,            \* CONFIG_PATH as a file: missing, or its raw content
    loaded,             \* what load_config() made of cfgFile
    probe,              \* inputs and results of speak()'s text normalisation and
                        \* of get_cache_path
    limit               \* how many connections are asked of the remote end in
                        \* one behaviour, at most

cvars == <<configDoc, nEdits>>
dvars == <<running, session, session_cm, current_config, reconnect_delay>>
lvars == <<pcLoop, loopCm, loopDelay>>
gvars == <<loopFails, lastGap, slept>>
\* the files of the process lifecycle
fvars == <<pidFile, sockNode>>
\* the process, its shutdown task, and what the daemon's tasks never touch
yvars == <<proc, apiKey, found, exitCode, pcShut, shutCm, sink, device, hook,
           cfgFile, loaded, probe, limit>>
xvars == <<fvars, yvars>>
vars == <<configDoc, running, session, session_cm, current_config, reconnect_delay,
          cms, pcRun, runCm, pcLoop, loopCm, loopDelay, handler, cache, nRequests,
          nEdits, completed, loopFails, lastGap, slept, proc, apiKey, pidFile,
          sockNode, found, exitCode, pcShut, shutCm, sink, device, hook, cfgFile,
          loaded, probe, limit>>

max_reconnect_delay == 30

\* a handler task that holds no connection
Idle ==
    [pc |-> "idle", text |-> <<>>, tts_config |-> NoConfig, cm |-> 0, sess |-> 0,
     player |-> FALSE, audio_chunks |-> <<>>, fed |-> <<>>, finished |-> FALSE,
     turn_complete |-> FALSE, pcm_data |-> None, result |-> "none",
     stream |-> <<>>, differs |-> FALSE, old |-> 0, served |-> FALSE]

\* TTSDaemon.__init__, and the tasks before run() starts them
InitDaemon ==
    /\ running = FALSE
    /\ session = 0
    /\ session_cm = 0
    /\ current_config = NoConfig
    /\ reconnect_delay = 1
    /\ cms = <<>>
    /\ pcRun = "init"
    /\ runCm = 0
    /\ pcLoop = "off"
    /\ loopCm = 0
    /\ loopDelay = 0
    /\ handler = [h \in Handlers |-> Idle]
    /\ cache = [k \in {} |-> None]
    /\ nRequests = 0
    /\ nEdits = 0
    /\ completed = {}
    /\ loopFails = 0
    /\ lastGap = 0
    /\ slept = 0
    /\ pcShut = "off"
    /\ shutCm = 0
    /\ exitCode = None

\* no sink, no hook client run, and no pure function under study
Absent == [none |-> TRUE]

InitAux ==
    /\ sink = Absent
    /\ device = Absent
    /\ hook = Absent
    /\ cfgFile = Absent
    /\ loaded = Absent
    /\ probe = Absent

\* the daemon after main() has passed its checks and constructed TTSDaemon:
\* no other daemon runs, and the key is set
Init ==
    /\ configDoc \in InitDocs
    /\ InitDaemon
    /\ InitAux
    /\ proc = "run"
    /\ apiKey = TRUE
    /\ pidFile = "absent"
    /\ sockNode = "absent"
    /\ found = [pid |-> "absent", sock |-> "absent"]
    /\ limit = MaxConnects

(***************************************************************************)
(* The Live API session.                                                   *)
(***************************************************************************)
\* sessions that were opened and not closed
Live ==
    {i \in 1..Len(cms) : cms[i].state = "open"}

\* connect_live_api up to its await: records the configuration, creates the
\* context manager and starts entering it
ConnectBegin(base, tts_config) ==
    /\ Len(base) < limit
    /\ current_config' = tts_config
    /\ cms' = Append(base, [state |-> "pending", config |-> tts_config])
    /\ session_cm' = Len(base) + 1

\* session_cm.__aenter__() returns the session
Entered(id) ==
    [cms EXCEPT ![id].state = "open"]

\* session_cm.__aenter__() raises
EnterFailed(id) ==
    [cms EXCEPT ![id].state = "failed"]

\* session_cm.__aexit__(None, None, None) with its errors swallowed: closes the
\* connection when the manager was entered; on a manager that is still being
\* entered, or that failed or was exited before, it raises and changes nothing
Exited(id) ==
    IF cms[id].state = "open" THEN [cms EXCEPT ![id].state = "closed"] ELSE cms

\* history of the backoff schedule
NoteSuccess ==
    /\ loopFails' = 0
    /\ lastGap' = 0
    /\ slept' = 0

NoteFailure ==
    /\ loopFails' = loopFails + 1
    /\ lastGap' = slept
    /\ slept' = 0

(***************************************************************************)
(* The configuration document.                                             *)
(***************************************************************************)
\* the user rewrites the configuration document
EditConfig(doc) ==
    /\ doc # configDoc
    /\ nEdits < MaxEdits
    /\ nEdits' = nEdits + 1
    /\ configDoc' = doc
    /\ UNCHANGED <<xvars, dvars, cms, pcRun, runCm, lvars, handler, cache, nRequests,
                   completed, gvars>>

(***************************************************************************)
(* run(): start, then the initial connect.                                 *)
(***************************************************************************)
\* run() up to the await of the initial connect_live_api: the PID is written,
\* the signal handlers are installed, a socket node found at the path is
\* unlinked and the listener is bound there
RunStart ==
    /\ proc = "run"
    /\ pcRun = "init"
    /\ running' = TRUE
    /\ pidFile' = "self"
    /\ sockNode' = "bound"
    /\ ConnectBegin(cms, load_config(configDoc))
    /\ runCm' = Len(cms) + 1
    /\ pcRun' = "connecting"
    /\ UNCHANGED <<yvars, cvars, session, reconnect_delay, lvars, handler, cache,
                   nRequests, completed, gvars>>

\* the initial connect succeeds; run() creates the maintain_connection task
RunConnected ==
    /\ pcRun = "connecting"
    /\ cms' = Entered(runCm)
    /\ session' = runCm
    /\ reconnect_delay' = 1
    /\ pcRun' = "serving"
    /\ pcLoop' = "check"
    /\ NoteSuccess
    /\ UNCHANGED <<xvars, cvars, running, session_cm, current_config, runCm, loopCm,
                   loopDelay, handler, cache, nRequests, completed>>

\* the initial connect fails; run() goes on to create the task all the same
RunConnectFailed ==
    /\ pcRun = "connecting"
    /\ cms' = EnterFailed(runCm)
    /\ pcRun' = "serving"
    /\ pcLoop' = "check"
    /\ NoteFailure
    /\ UNCHANGED <<xvars, cvars, dvars, runCm, loopCm, loopDelay, handler, cache,
                   nRequests, completed>>

(***************************************************************************)
(* maintain_connection().  With a session present the loop sleeps 5 s and  *)
(* checks again, which changes no state.                                   *)
(***************************************************************************)
LoopConnect ==
    /\ pcLoop = "check"
    /\ running
    /\ session = 0
    /\ ConnectBegin(cms, load_config(configDoc))
    /\ loopCm' = Len(cms) + 1
    /\ pcLoop' = "connecting"
    /\ UNCHANGED <<xvars, cvars, running, session, reconnect_delay, pcRun, runCm,
                   loopDelay, handler, cache, nRequests, completed, gvars>>

LoopConnected ==
    /\ pcLoop = "connecting"
    /\ cms' = Entered(loopCm)
    /\ session' = loopCm
    /\ reconnect_delay' = 1
    /\ pcLoop' = "check"
    /\ NoteSuccess
    /\ UNCHANGED <<xvars, cvars, running, session_cm, current_config, pcRun, runCm,
                   loopCm, loopDelay, handler, cache, nRequests, completed>>

\* the connect fails: the loop starts sleeping reconnect_delay seconds
LoopConnectFailed ==
    /\ pcLoop = "connecting"
    /\ cms' = EnterFailed(loopCm)
    /\ loopDelay' = reconnect_delay
    /\ pcLoop' = "backoff"
    /\ NoteFailure
    /\ UNCHANGED <<xvars, cvars, dvars, pcRun, runCm, loopCm, handler, cache,
                   nRequests, completed>>

\* the sleep ends: the loop doubles the delay it reads now
LoopWake ==
    /\ pcLoop = "backoff"
    /\ reconnect_delay' = Min(reconnect_delay * 2, max_reconnect_delay)
    /\ pcLoop' = "check"
    /\ slept' = slept + loopDelay
    /\ UNCHANGED <<xvars, cvars, running, session, session_cm, current_config, cms,
                   pcRun, runCm, loopCm, loopDelay, handler, cache, nRequests,
                   completed, loopFails, lastGap>>

(***************************************************************************)
(* handle_client() -> speak() -> synthesize_live().                        *)
(***************************************************************************)
\* the text blobs clients write to the socket
Payloads == {<<"a">>, <<" ", "a", "b">>, <<" ">>}

\* a normalisation that strips and does not cut
SpeakTextUncut(data, tts_config) ==
    Strip(Strip(data))

\* handle_client's decode and strip, then speak's strip and max_chars cut
SpeakText(data, tts_config) ==
    LET text == Strip(Strip(data)) IN
    IF Len(text) > tts_config.max_chars THEN Prefix(text, tts_config.max_chars)
    ELSE text

\* what identifies a request: its text and the four options of the cache key
Request(text, tts_config) ==
    <<text, tts_config.voice, tts_config.style, tts_config.mode, tts_config.language>>

Set(h, rec) ==
    handler' = [handler EXCEPT ![h] = rec]

\* speak() has returned and handle_client closes the connection: the locals of
\* speak and synthesize_live are gone; what the request did is kept as history
Finished(rec, result) ==
    [Idle EXCEPT !.pc = "close", !.result = result, !.sess = rec.sess,
                 !.served = rec.served, !.differs = rec.differs, !.old = rec.old]

\* a connection is accepted and its data read; speak() loads the configuration
Accepted(h, data, player) ==
    LET tts_config == load_config(configDoc)
        text == SpeakText(data, tts_config) IN
    [Idle EXCEPT !.text = text, !.tts_config = tts_config, !.player = player,
                 !.differs = /\ current_config # NoConfig
                             /\ SessionShape(current_config) # SessionShape(tts_config),
                 !.old = session,
                 !.served = Request(text, tts_config) \in completed]

\* task slots are taken in order: which idle slot serves a connection makes
\* no difference
Accept(h) ==
    /\ handler[h].pc = "idle"
    /\ h = "h2" => handler["h1"].pc # "idle"
    /\ pcRun # "init"

\* a request with text that is not in the cache
IsMiss(data) ==
    /\ Strip(data) # <<>>
    /\ nRequests < MaxRequests
    /\ nRequests' = nRequests + 1
    /\ get_cache_path(SpeakText(data, load_config(configDoc)), load_config(configDoc))
           \notin DOMAIN cache

\* no data, or nothing but whitespace: speak() returns at once
AcceptNoText(h, data) ==
    /\ Accept(h)
    /\ Strip(data) = <<>>
    /\ Set(h, Finished(Idle, "none"))
    /\ UNCHANGED <<xvars, cvars, dvars, cms, pcRun, runCm, lvars, cache, nRequests,
                   completed, gvars>>

\* cache hit: the cached file is played
AcceptHit(h, data, player) ==
    /\ Accept(h)
    /\ Strip(data) # <<>>
    /\ nRequests < MaxRequests
    /\ nRequests' = nRequests + 1
    /\ get_cache_path(SpeakText(data, load_config(configDoc)), load_config(configDoc))
           \in DOMAIN cache
    /\ cache[get_cache_path(SpeakText(data, load_config(configDoc)),
                            load_config(configDoc))] # Unreadable
    /\ Set(h, [Accepted(h, data, player) EXCEPT !.pc = "hit", !.result = "hit"])
    /\ UNCHANGED <<xvars, cvars, dvars, cms, pcRun, runCm, lvars, cache, completed, gvars>>

\* cache miss, the configuration changed and a context manager is held:
\* synthesize_live starts closing it
AcceptDrift(h, data, player) ==
    /\ Accept(h)
    /\ IsMiss(data)
    /\ ConfigChanged(current_config, load_config(configDoc))
    /\ session_cm # 0
    /\ Set(h, [Accepted(h, data, player) EXCEPT !.pc = "closing_session",
                                                !.cm = session_cm])
    /\ UNCHANGED <<xvars, cvars, dvars, cms, pcRun, runCm, lvars, cache, completed, gvars>>

\* cache miss and no session: synthesize_live connects at once
AcceptConnect(h, data, player) ==
    /\ Accept(h)
    /\ IsMiss(data)
    /\ ~(ConfigChanged(current_config, load_config(configDoc)) /\ session_cm # 0)
    /\ session = 0
    /\ ConnectBegin(cms, load_config(configDoc))
    /\ Set(h, [Accepted(h, data, player) EXCEPT !.pc = "connecting",
                                                !.cm = Len(cms) + 1])
    /\ UNCHANGED <<xvars, cvars, running, session, reconnect_delay, pcRun, runCm,
                   lvars, cache, completed, gvars>>

\* cache miss and a session: the text is sent on it
AcceptSend(h, data, player) ==
    /\ Accept(h)
    /\ IsMiss(data)
    /\ ~(ConfigChanged(current_config, load_config(configDoc)) /\ session_cm # 0)
    /\ session # 0
    /\ Set(h, [Accepted(h, data, player) EXCEPT !.pc = "streaming",
                                                !.sess = session])
    /\ UNCHANGED <<xvars, cvars, dvars, cms, pcRun, runCm, lvars, cache, completed, gvars>>

\* the drift teardown's __aexit__ returns: both fields are cleared and, no
\* session being left, the connect begins
DriftClosed(h) ==
    /\ handler[h].pc = "closing_session"
    /\ session' = 0
    /\ ConnectBegin(Exited(handler[h].cm), handler[h].tts_config)
    /\ Set(h, [handler[h] EXCEPT !.pc = "connecting",
                                 !.cm = Len(cms) + 1])
    /\ UNCHANGED <<xvars, cvars, running, reconnect_delay, pcRun, runCm, lvars, cache,
                   nRequests, completed, gvars>>

\* the lazy connect succeeds and the text is sent on the session just stored
Connected(h) ==
    /\ handler[h].pc = "connecting"
    /\ cms' = Entered(handler[h].cm)
    /\ session' = handler[h].cm
    /\ reconnect_delay' = 1
    /\ Set(h, [handler[h] EXCEPT !.pc = "streaming", !.sess = handler[h].cm])
    /\ NoteSuccess
    /\ UNCHANGED <<xvars, cvars, running, session_cm, current_config, pcRun, runCm,
                   lvars, cache, nRequests, completed>>

\* a synthesizer that answers a failed connect with another attempt
ConnectFailedRetry(h) ==
    /\ handler[h].pc = "connecting"
    /\ ConnectBegin(EnterFailed(handler[h].cm), handler[h].tts_config)
    /\ Set(h, [handler[h] EXCEPT !.cm = Len(cms) + 1])
    /\ UNCHANGED <<xvars, cvars, running, session, reconnect_delay, pcRun, runCm,
                   lvars, cache, nRequests, completed, gvars>>

\* the lazy connect fails: synthesize_live returns None
ConnectFailed(h) ==
    /\ handler[h].pc = "connecting"
    /\ cms' = EnterFailed(handler[h].cm)
    /\ Set(h, Finished(handler[h], "absent"))
    /\ UNCHANGED <<xvars, cvars, dvars, pcRun, runCm, lvars, cache, nRequests,
                   completed, gvars>>

\* a response carries a part with audio data
RecvChunk(h, chunk) ==
    /\ handler[h].pc = "streaming"
    /\ Len(handler[h].stream) < MaxChunks
    /\ Set(h, [handler[h] EXCEPT
                 !.stream = Append(@, chunk),
                 !.audio_chunks = Append(@, chunk),
                 !.fed = IF handler[h].player THEN Feed(@, chunk) ELSE @])
    /\ UNCHANGED <<xvars, cvars, dvars, cms, pcRun, runCm, lvars, cache, nRequests,
                   completed, gvars>>

\* the receive loop is left: synthesize_live returns the joined chunks, if any,
\* and speak() saves them at the cache path and starts playing them
Return(h, rec) ==
    IF rec.audio_chunks # <<>>
    THEN /\ Set(h, [rec EXCEPT !.pc = "playing", !.result = "pcm",
                               !.pcm_data = Join(rec.audio_chunks)])
         /\ cache' = (get_cache_path(rec.text, rec.tts_config)
                        :> Wav(Join(rec.audio_chunks))) @@ cache
         /\ completed' = completed \cup {Request(rec.text, rec.tts_config)}
    ELSE /\ Set(h, Finished(rec, "absent"))
         /\ UNCHANGED <<cache, completed>>

\* a response carries turn_complete
TurnComplete(h) ==
    /\ handler[h].pc = "streaming"
    /\ Return(h, [handler[h] EXCEPT !.turn_complete = TRUE,
                                    !.finished = handler[h].player])
    /\ UNCHANGED <<xvars, cvars, dvars, cms, pcRun, runCm, lvars, nRequests, gvars>>

\* the response stream ends without turn_complete
StreamEnd(h) ==
    /\ handler[h].pc = "streaming"
    /\ Return(h, handler[h])
    /\ UNCHANGED <<xvars, cvars, dvars, cms, pcRun, runCm, lvars, nRequests, gvars>>

\* the send or the stream raises and a context manager is held: the handler
\* starts closing it
RaiseClose(h) ==
    /\ handler[h].pc = "streaming"
    /\ session_cm # 0
    /\ Set(h, [handler[h] EXCEPT !.pc = "err_closing", !.cm = session_cm])
    /\ UNCHANGED <<xvars, cvars, dvars, cms, pcRun, runCm, lvars, cache, nRequests,
                   completed, gvars>>

\* the send or the stream raises and no context manager is held
RaiseClear(h) ==
    /\ handler[h].pc = "streaming"
    /\ session_cm = 0
    /\ session' = 0
    /\ Set(h, Finished(handler[h], "error"))
    /\ UNCHANGED <<xvars, cvars, running, session_cm, current_config, reconnect_delay,
                   cms, pcRun, runCm, lvars, cache, nRequests, completed, gvars>>

\* the error path's __aexit__ returns: both fields are cleared
ErrClosed(h) ==
    /\ handler[h].pc = "err_closing"
    /\ cms' = Exited(handler[h].cm)
    /\ session' = 0
    /\ session_cm' = 0
    /\ Set(h, Finished(handler[h], "error"))
    /\ UNCHANGED <<xvars, cvars, running, current_config, reconnect_delay, pcRun,
                   runCm, lvars, cache, nRequests, completed, gvars>>

\* cache hit on a file that is no WAV: wave.open raises in
\* play_cached_streaming (or the external player fails), nothing is played
AcceptHitUnreadable(h, data, player) ==
    /\ Accept(h)
    /\ Strip(data) # <<>>
    /\ nRequests < MaxRequests
    /\ nRequests' = nRequests + 1
    /\ get_cache_path(SpeakText(data, load_config(configDoc)), load_config(configDoc))
           \in DOMAIN cache
    /\ cache[get_cache_path(SpeakText(data, load_config(configDoc)),
                            load_config(configDoc))] = Unreadable
    /\ Set(h, [Accepted(h, data, player) EXCEPT !.pc = "close", !.result = "unplayable"])
    /\ UNCHANGED <<xvars, cvars, dvars, cms, pcRun, runCm, lvars, cache, completed, gvars>>

\* the receive loop is left with audio and save_audio raises (disk full, no
\* permission): the file may have been created; the exception leaves speak()
\* before the playback and handle_client logs it
SaveFails(h, left) ==
    /\ handler[h].pc = "streaming"
    /\ handler[h].audio_chunks # <<>>
    /\ cache' = IF left
                THEN (get_cache_path(handler[h].text, handler[h].tts_config)
                        :> Unreadable) @@ cache
                ELSE cache
    /\ Set(h, [handler[h] EXCEPT !.pc = "close", !.result = "savefail",
                                 !.pcm_data = Join(handler[h].audio_chunks)])
    /\ UNCHANGED <<xvars, cvars, dvars, cms, pcRun, runCm, lvars, nRequests,
                   completed, gvars>>

\* playback ends, the connection is closed and the task ends
PlayDone(h) ==
    /\ handler[h].pc \in {"playing", "hit"}
    /\ Set(h, Idle)
    /\ UNCHANGED <<xvars, cvars, dvars, cms, pcRun, runCm, lvars, cache, nRequests,
                   completed, gvars>>

\* the connection is closed and the task ends
Closed(h) ==
    /\ handler[h].pc = "close"
    /\ Set(h, Idle)
    /\ UNCHANGED <<xvars, cvars, dvars, cms, pcRun, runCm, lvars, cache, nRequests,
                   completed, gvars>>

(***************************************************************************)
(* The daemon: speak() calls synthesize_live without a player.             *)
(***************************************************************************)
Next ==
    \/ \E doc \in Docs : EditConfig(doc)
    \/ RunStart
    \/ RunConnected
    \/ RunConnectFailed
    \/ LoopConnect
    \/ LoopConnected
    \/ LoopConnectFailed
    \/ LoopWake
    \/ \E h \in Handlers, data \in Payloads : AcceptNoText(h, data)
    \/ \E h \in Handlers, data \in Payloads : AcceptHit(h, data, FALSE)
    \/ \E h \in Handlers, data \in Payloads : AcceptDrift(h, data, FALSE)
    \/ \E h \in Handlers, data \in Payloads : AcceptConnect(h, data, FALSE)
    \/ \E h \in Handlers, data \in Payloads : AcceptSend(h, data, FALSE)
    \/ \E h \in Handlers : DriftClosed(h)
    \/ \E h \in Handlers : Connected(h)
    \/ \E h \in Handlers : ConnectFailed(h)
    \/ \E h \in Handlers : RecvChunk(h, <<1>>)
    \/ \E h \in Handlers : TurnComplete(h)
    \/ \E h \in Handlers : StreamEnd(h)
    \/ \E h \in Handlers : RaiseClose(h)
    \/ \E h \in Handlers : RaiseClear(h)
    \/ \E h \in Handlers : ErrClosed(h)
    \/ \E h \in Handlers : PlayDone(h)
    \/ \E h \in Handlers : Closed(h)

Spec == Init /\ [][Next]_vars

(***************************************************************************)
(* The synthesizer with a sink: one task calling synthesize_live with and  *)
(* without a player (speak() itself passes none), next to run()'s initial  *)
(* connect, under a configuration document that is not rewritten.          *)
(***************************************************************************)
NextSink ==
    \/ RunStart
    \/ RunConnected
    \/ RunConnectFailed
    \/ \E data \in Payloads : AcceptNoText("h1", data)
    \/ \E data \in Payloads, player \in BOOLEAN : AcceptHit("h1", data, player)
    \/ \E data \in Payloads, player \in BOOLEAN : AcceptConnect("h1", data, player)
    \/ \E data \in Payloads, player \in BOOLEAN : AcceptSend("h1", data, player)
    \/ Connected("h1")
    \/ ConnectFailed("h1")
    \/ \E chunk \in Chunks : RecvChunk("h1", chunk)
    \/ TurnComplete("h1")
    \/ StreamEnd("h1")
    \/ RaiseClose("h1")
    \/ RaiseClear("h1")
    \/ ErrClosed("h1")
    \/ PlayDone("h1")
    \/ Closed("h1")

SinkSpec == Init /\ [][NextSink]_vars

(***************************************************************************)
(* The daemon with a cache directory that can fail on write: one           *)
(* connection at a time, under a configuration document that is not        *)
(* rewritten.                                                              *)
(***************************************************************************)
NextSave ==
    \/ RunStart
    \/ RunConnected
    \/ RunConnectFailed
    \/ \E data \in Payloads : AcceptNoText("h1", data)
    \/ \E data \in Payloads : AcceptHit("h1", data, FALSE)
    \/ \E data \in Payloads : AcceptHitUnreadable("h1", data, FALSE)
    \/ \E data \in Payloads : AcceptConnect("h1", data, FALSE)
    \/ \E data \in Payloads : AcceptSend("h1", data, FALSE)
    \/ Connected("h1")
    \/ ConnectFailed("h1")
    \/ \E chunk \in Chunks : RecvChunk("h1", chunk)
    \/ TurnComplete("h1")
    \/ StreamEnd("h1")
    \/ \E left \in BOOLEAN : SaveFails("h1", left)
    \/ RaiseClose("h1")
    \/ RaiseClear("h1")
    \/ ErrClosed("h1")
    \/ PlayDone("h1")
    \/ Closed("h1")

SaveSpec == Init /\ [][NextSave]_vars

(***************************************************************************)
(* StreamingAudioPlayer: feed() and finish() are called by the synthesizer *)
(* and _audio_callback() by the output stream's thread, once the stream    *)
(* was started.                                                            *)
(***************************************************************************)
\* pre_buffer_chunks a sink is constructed with (the default is 2)
MaxPreBuffer == 3
\* chunks fed to one sink
MaxFeeds == 3
\* pulls of the output device on one sink
MaxPulls == 3

\* PCM chunks of one and of two 16-bit samples; no byte of them is zero
SinkChunks == {<<1, 2>>, <<3, 4, 5, 6>>}
\* frames the device asks for in one pull
Frames == {1, 2}

\* StreamingAudioPlayer.__init__
NewSink(pre_buffer_chunks) ==
    [pre_buffer_chunks |-> pre_buffer_chunks, queue |-> <<>>, stream |-> "none",
     started |-> FALSE, finished |-> FALSE, chunks_received |-> 0,
     total_bytes_fed |-> 0]

\* the output stream before it exists
NewDevice ==
    [starts |-> 0, startedBy |-> "none", startedAt |-> 0, fedAll |-> <<>>,
     out |-> <<>>, pulls |-> 0]

\* start(): creates and starts the output stream, once
start(s) ==
    IF s.started THEN s ELSE [s EXCEPT !.started = TRUE, !.stream = "running"]

\* a feed that starts playback with the first chunk
feed_eager(s, pcm_data) ==
    LET t == [s EXCEPT !.queue = Feed(@, pcm_data),
                       !.chunks_received = @ + 1,
                       !.total_bytes_fed = @ + Len(pcm_data)] IN
    IF ~t.started /\ t.chunks_received >= 1 THEN start(t) ELSE t

\* feed(pcm_data)
feed(s, pcm_data) ==
    LET t == [s EXCEPT !.queue = Feed(@, pcm_data),
                       !.chunks_received = @ + 1,
                       !.total_bytes_fed = @ + Len(pcm_data)] IN
    IF ~t.started /\ t.chunks_received >= t.pre_buffer_chunks THEN start(t) ELSE t

\* finish()
finish(s) ==
    LET t == [s EXCEPT !.finished = TRUE] IN
    IF ~t.started /\ t.chunks_received > 0 THEN start(t) ELSE t

\* b'\x00' * n
Zeros(n) ==
    [i \in 1..n |-> 0]

\* _audio_callback's loop and trim: whole chunks are taken off the queue until
\* the data is long enough or the queue is empty, the data is padded with zeros
\* and cut to bytes_needed
RECURSIVE audio_callback(_, _, _)
audio_callback(queue, data, bytes_needed) ==
    IF Len(data) >= bytes_needed
    THEN [queue |-> queue, data |-> SubSeq(data, 1, bytes_needed)]
    ELSE IF queue = <<>>
         THEN [queue |-> queue, data |-> data \o Zeros(bytes_needed - Len(data))]
    ELSE audio_callback(Tail(queue), data \o Head(queue), bytes_needed)

\* the ghost record of a start made by this call
NoteStart(s, t, by) ==
    IF ~s.started /\ t.started
    THEN [device EXCEPT !.starts = @ + 1, !.startedBy = by,
                        !.startedAt = t.chunks_received]
    ELSE device

\* every variable of the daemon
daemonvars == <<cvars, dvars, cms, pcRun, runCm, lvars, handler, cache, nRequests,
                completed, gvars, fvars, proc, apiKey, found, exitCode, pcShut,
                shutCm, limit>>

\* the daemon constructed and not started, under the default configuration
Quiet ==
    /\ configDoc = DocDefault
    /\ InitDaemon
    /\ proc = "run"
    /\ apiKey = TRUE
    /\ pidFile = "absent"
    /\ sockNode = "absent"
    /\ found = [pid |-> "absent", sock |-> "absent"]
    /\ limit = MaxConnects

PlayerInit ==
    /\ Quiet
    /\ \E n \in 1..MaxPreBuffer : sink = NewSink(n)
    /\ device = NewDevice
    /\ hook = Absent
    /\ cfgFile = Absent
    /\ loaded = Absent
    /\ probe = Absent

\* the synthesizer feeds a chunk
PlayerFeed(pcm_data) ==
    /\ ~sink.finished
    /\ sink.chunks_received < MaxFeeds
    /\ sink' = feed(sink, pcm_data)
    /\ device' = [NoteStart(sink, feed(sink, pcm_data), "feed")
                    EXCEPT !.fedAll = Append(@, pcm_data)]
    /\ UNCHANGED <<daemonvars, hook, cfgFile, loaded, probe>>

\* the synthesizer saw turn_complete
PlayerFinish ==
    /\ ~sink.finished
    /\ sink' = finish(sink)
    /\ device' = NoteStart(sink, finish(sink), "finish")
    /\ UNCHANGED <<daemonvars, hook, cfgFile, loaded, probe>>

\* the output stream pulls a block of frames
PlayerCallback(frames) ==
    /\ sink.stream = "running"
    /\ device.pulls < MaxPulls
    /\ LET r == audio_callback(sink.queue, <<>>, frames * CHANNELS * 2) IN
        /\ sink' = [sink EXCEPT !.queue = r.queue]
        /\ device' = [device EXCEPT !.out = @ \o r.data, !.pulls = @ + 1]
    /\ UNCHANGED <<daemonvars, hook, cfgFile, loaded, probe>>

PlayerNext ==
    \/ \E pcm_data \in SinkChunks : PlayerFeed(pcm_data)
    \/ PlayerFinish
    \/ \E frames \in Frames : PlayerCallback(frames)

PlayerSpec == PlayerInit /\ [][PlayerNext]_vars

(***************************************************************************)
(* The process: main(), run(), the signal handlers and shutdown().         *)
(***************************************************************************)
\* what the launch can find at PID_FILE: nothing, text that is no number, the
\* pid of no process, the pid of a process this user may signal, the pid of a
\* process this user may not signal
PidStates == {"absent", "garbage", "dead", "live", "foreign"}

\* is_daemon_running(): int() raises ValueError, os.kill(pid, 0) raises
\* ProcessLookupError or PermissionError, and all three give False
is_daemon_running(pid_file) ==
    IF pid_file = "absent" THEN FALSE
    ELSE IF pid_file = "garbage" THEN FALSE
    ELSE IF pid_file = "dead" THEN FALSE
    ELSE IF pid_file = "foreign" THEN FALSE
    ELSE TRUE

\* a daemon is launched: a live process named by the PID marker is a daemon
\* that holds the socket node
LifeInit ==
    /\ configDoc = DocDefault
    /\ InitDaemon
    /\ InitAux
    /\ proc = "start"
    /\ apiKey \in BOOLEAN
    /\ pidFile \in PidStates
    /\ sockNode \in (IF pidFile \in {"live", "foreign"} THEN {"other"}
                     ELSE {"absent", "stale"})
    /\ found = [pid |-> pidFile, sock |-> sockNode]
    /\ limit = MaxConnects

\* main(): "TTS daemon is already running", exit 1
MainRefuse ==
    /\ proc = "start"
    /\ is_daemon_running(pidFile)
    /\ proc' = "refused"
    /\ exitCode' = 1
    /\ UNCHANGED <<cvars, dvars, cms, pcRun, runCm, lvars, handler, cache,
                   nRequests, completed, gvars, fvars, apiKey, found, pcShut,
                   shutCm, sink, device, hook, cfgFile, loaded, probe,
                   limit>>

\* main(): the key is not set, exit 1
MainNoKey ==
    /\ proc = "start"
    /\ ~is_daemon_running(pidFile)
    /\ ~apiKey
    /\ proc' = "nokey"
    /\ exitCode' = 1
    /\ UNCHANGED <<cvars, dvars, cms, pcRun, runCm, lvars, handler, cache,
                   nRequests, completed, gvars, fvars, apiKey, found, pcShut,
                   shutCm, sink, device, hook, cfgFile, loaded, probe,
                   limit>>

\* main() constructs the daemon and calls asyncio.run(daemon.run())
MainRun ==
    /\ proc = "start"
    /\ ~is_daemon_running(pidFile)
    /\ apiKey
    /\ proc' = "run"
    /\ UNCHANGED <<cvars, dvars, cms, pcRun, runCm, lvars, handler, cache,
                   nRequests, completed, gvars, fvars, apiKey, found, exitCode,
                   pcShut, shutCm, sink, device, hook, cfgFile, loaded, probe,
                   limit>>

\* loop.stop() and what follows it: run_until_complete raises, asyncio.run
\* cancels every task, run()'s finally and main()'s finally call cleanup(),
\* and the process exits on the RuntimeError
StopLoop ==
    /\ pcShut' = "done"
    /\ proc' = "exited"
    /\ exitCode' = 1
    /\ pidFile' = "absent"
    /\ sockNode' = "absent"
    /\ pcRun' = "done"
    /\ pcLoop' = "off"
    /\ handler' = [h \in Handlers |-> Idle]

\* a signal arrives and the shutdown() task runs up to its await, or, with no
\* context manager held, to its end
ShutdownBegin ==
    /\ proc = "run"
    /\ pcRun # "init"
    /\ pcShut = "off"
    /\ running' = FALSE
    /\ IF session_cm # 0
       THEN /\ pcShut' = "closing"
            /\ shutCm' = session_cm
            /\ UNCHANGED <<proc, exitCode, fvars, pcRun, pcLoop, handler>>
       ELSE /\ StopLoop
            /\ UNCHANGED shutCm
    /\ UNCHANGED <<cvars, session, session_cm, current_config, reconnect_delay,
                   cms, runCm, loopCm, loopDelay, cache, nRequests, completed,
                   gvars, apiKey, found, sink, device, hook, cfgFile, loaded,
                   probe, limit>>

\* shutdown()'s __aexit__ returns: both fields are cleared and the loop stopped
ShutdownClosed ==
    /\ proc = "run"
    /\ pcShut = "closing"
    /\ cms' = Exited(shutCm)
    /\ session' = 0
    /\ session_cm' = 0
    /\ StopLoop
    /\ UNCHANGED <<cvars, running, current_config, reconnect_delay, runCm,
                   loopCm, loopDelay, cache, nRequests, completed, gvars,
                   apiKey, found, shutCm, sink, device, hook, cfgFile, loaded,
                   probe, limit>>

\* the launch, then the daemon with one connection at a time until a signal
LifeNext ==
    \/ MainRefuse
    \/ MainNoKey
    \/ MainRun
    \/ RunStart
    \/ proc = "run" /\ RunConnected
    \/ proc = "run" /\ RunConnectFailed
    \/ proc = "run" /\ LoopConnect
    \/ proc = "run" /\ LoopConnected
    \/ proc = "run" /\ LoopConnectFailed
    \/ proc = "run" /\ LoopWake
    \/ proc = "run" /\ \E data \in Payloads : AcceptNoText("h1", data)
    \/ proc = "run" /\ \E data \in Payloads : AcceptHit("h1", data, FALSE)
    \/ proc = "run" /\ \E data \in Payloads : AcceptConnect("h1", data, FALSE)
    \/ proc = "run" /\ \E data \in Payloads : AcceptSend("h1", data, FALSE)
    \/ proc = "run" /\ Connected("h1")
    \/ proc = "run" /\ ConnectFailed("h1")
    \/ proc = "run" /\ RecvChunk("h1", <<1>>)
    \/ proc = "run" /\ TurnComplete("h1")
    \/ proc = "run" /\ StreamEnd("h1")
    \/ proc = "run" /\ RaiseClose("h1")
    \/ proc = "run" /\ RaiseClear("h1")
    \/ proc = "run" /\ ErrClosed("h1")
    \/ proc = "run" /\ PlayDone("h1")
    \/ proc = "run" /\ Closed("h1")
    \/ ShutdownBegin
    \/ ShutdownClosed

LifeSpec == LifeInit /\ [][LifeNext]_vars

(***************************************************************************)
(* The hook client (src/speak_hook.py): one run of main().                 *)
(***************************************************************************)
\* what main() finds on standard input: bytes that are not UTF-8, text that is
\* not JSON, a JSON value that is not an object, or an object; of an object,
\* what its transcript_path leads to
HookInputs ==
    {[kind |-> k, value |-> "none"] : k \in {"undecodable", "unparseable"}}
    \cup {[kind |-> "nonobject", value |-> v] :
            v \in {"array", "number", "string", "null"}}
    \cup {[kind |-> "object", value |-> t] :
            t \in {"nokey", "empty", "missing", "unreadable", "noassistant",
                   "assistant"}}

\* what the socket does to send_to_daemon
SocketOutcomes == {"missing", "refused", "sendfail", "ok"}

HookInit ==
    /\ Quiet
    /\ sink = Absent
    /\ device = Absent
    /\ cfgFile = Absent
    /\ loaded = Absent
    /\ probe = Absent
    /\ \E input \in HookInputs, socket \in SocketOutcomes, key \in BOOLEAN,
          service \in {"ok", "fails"} :
         hook = [pc |-> "load", stdin |-> input, socket |-> socket,
                 GEMINI_API_KEY |-> key, service |-> service, text |-> "none",
                 delivered |-> FALSE, exit |-> None]

HookStep(rec) ==
    /\ hook' = rec
    /\ UNCHANGED <<daemonvars, sink, device, cfgFile, loaded, probe>>

\* json.load(sys.stdin) raises: "JSON input error", sys.exit(0)
HookLoadFails ==
    /\ hook.pc = "load"
    /\ hook.stdin.kind \in {"undecodable", "unparseable"}
    /\ HookStep([hook EXCEPT !.pc = "exited", !.exit = 0])

\* json.load returns a value that is not a dict: hook_data.get raises
\* AttributeError, which nothing catches, and the interpreter exits with 1
HookGetRaises ==
    /\ hook.pc = "load"
    /\ hook.stdin.kind = "nonobject"
    /\ HookStep([hook EXCEPT !.pc = "exited", !.exit = 1])

\* no transcript_path, an empty one, or a path that does not exist: "Done"
HookNoTranscript ==
    /\ hook.pc = "load"
    /\ hook.stdin.kind = "object"
    /\ hook.stdin.value \in {"nokey", "empty", "missing"}
    /\ HookStep([hook EXCEPT !.pc = "send", !.text = "Done"])

\* extract_last_assistant_message returns "" (an error it caught, or no
\* assistant message): "Ready"
HookNoMessage ==
    /\ hook.pc = "load"
    /\ hook.stdin.kind = "object"
    /\ hook.stdin.value \in {"unreadable", "noassistant"}
    /\ HookStep([hook EXCEPT !.pc = "send", !.text = "Ready"])

\* a message was extracted; summarize_asmr returns its first 200 characters
\* without a key, the service's summary, or the fallback when the call fails
HookSummarize ==
    /\ hook.pc = "load"
    /\ hook.stdin.kind = "object"
    /\ hook.stdin.value = "assistant"
    /\ HookStep([hook EXCEPT !.pc = "send",
                             !.text = IF ~hook.GEMINI_API_KEY THEN "head"
                                      ELSE IF hook.service = "ok" THEN "summary"
                                      ELSE "fallback"])

\* send_to_daemon, whose result main() ignores, then sys.exit(0)
HookSend ==
    /\ hook.pc = "send"
    /\ HookStep([hook EXCEPT !.pc = "exited", !.exit = 0,
                             !.delivered = (hook.socket = "ok")])

HookNext ==
    \/ HookLoadFails
    \/ HookGetRaises
    \/ HookNoTranscript
    \/ HookNoMessage
    \/ HookSummarize
    \/ HookSend

HookSpec == HookInit /\ [][HookNext]_vars

(***************************************************************************)
(* load_config() on the configuration document as a file.                  *)
(***************************************************************************)
\* a value other than the default for each key of the configuration
OtherValue ==
    [mode |-> <<"f", "u", "l", "l">>, voice |-> Kore, style |-> mine,
     language |-> <<"e", "n", "g", "l", "i", "s", "h">>, max_chars |-> 1,
     custom_styles |-> (mine :> <<"x">>)]

\* JSON objects holding any subset of the keys
ObjectDocs ==
    {[k \in keys |-> OtherValue[k]] : keys \in SUBSET DOMAIN OtherValue}

\* CONFIG_PATH: no file, a file that cannot be read, bytes that are not UTF-8,
\* text that is not JSON, a JSON value that is not an object, or an object
ConfigFiles ==
    {[kind |-> k, value |-> "none"] :
        k \in {"missing", "unreadable", "undecodable", "invalid"}}
    \cup {[kind |-> "nonobject", value |-> v] :
            v \in {"array", "number", "string", "null"}}
    \cup {[kind |-> "object", value |-> doc] : doc \in ObjectDocs}

\* load_config() on a file: IOError and JSONDecodeError are caught and give the
\* defaults; read_text()'s UnicodeDecodeError and the TypeError of unpacking a
\* value that is no mapping are not caught
load_config_file(file) ==
    IF file.kind = "missing" THEN [raises |-> "none", config |-> DEFAULT_CONFIG]
    ELSE IF file.kind = "unreadable" THEN [raises |-> "none", config |-> DEFAULT_CONFIG]
    ELSE IF file.kind = "undecodable"
         THEN [raises |-> "UnicodeDecodeError", config |-> None]
    ELSE IF file.kind = "invalid" THEN [raises |-> "none", config |-> DEFAULT_CONFIG]
    ELSE IF file.kind = "nonobject" THEN [raises |-> "TypeError", config |-> None]
    ELSE [raises |-> "none", config |-> load_config(file.value)]

ConfigInit ==
    /\ Quiet
    /\ sink = Absent
    /\ device = Absent
    /\ hook = Absent
    /\ probe = Absent
    /\ cfgFile \in ConfigFiles
    /\ loaded = Absent

\* a request, run() or the connect loop calls load_config()
LoadConfig ==
    /\ loaded = Absent
    /\ loaded' = load_config_file(cfgFile)
    /\ UNCHANGED <<daemonvars, sink, device, hook, cfgFile, probe>>

\* the user rewrites the file after it was loaded
RewriteConfig(file) ==
    /\ loaded # Absent
    /\ file # cfgFile
    /\ cfgFile' = file
    /\ loaded' = Absent
    /\ UNCHANGED <<daemonvars, sink, device, hook, probe>>

ConfigNext ==
    \/ LoadConfig
    \/ \E file \in ConfigFiles : RewriteConfig(file)

ConfigSpec == ConfigInit /\ [][ConfigNext]_vars

(***************************************************************************)
(* speak()'s normalisation of the text, on pairs of payloads.              *)
(***************************************************************************)
\* the longest payload and the largest max_chars tried
MaxText == 3
MaxCut == 2

\* every text of at most n characters over a blank and two letters
RECURSIVE Texts(_)
Texts(n) ==
    IF n = 0 THEN {<<>>}
    ELSE Texts(n - 1) \cup
         {Append(t, c) : t \in {u \in Texts(n - 1) : Len(u) = n - 1},
                         c \in {" ", "a", "b"}}

TextInit ==
    /\ Quiet
    /\ sink = Absent
    /\ device = Absent
    /\ hook = Absent
    /\ cfgFile = Absent
    /\ loaded = Absent
    /\ \E a \in Texts(MaxText), b \in Texts(MaxText), n \in 1..MaxCut :
         probe = [pc |-> "input", dataA |-> a, dataB |-> b,
                  tts_config |-> load_config([max_chars |-> n]),
                  sentA |-> None, sentB |-> None, pathA |-> None, pathB |-> None]

\* what speak() does with one payload up to the call of synthesize_live: the
\* text it passes on and the cache path it looked up; nothing for a payload
\* that is empty after the strip
SpeakSent(data, tts_config) ==
    IF Strip(data) = <<>> THEN None ELSE SpeakText(data, tts_config)

SpeakPath(data, tts_config) ==
    IF Strip(data) = <<>> THEN None
    ELSE get_cache_path(SpeakText(data, tts_config), tts_config)

\* both payloads are spoken under the same configuration
SpeakBoth ==
    /\ probe.pc = "input"
    /\ probe' = [probe EXCEPT
                   !.pc = "done",
                   !.sentA = SpeakSent(probe.dataA, probe.tts_config),
                   !.sentB = SpeakSent(probe.dataB, probe.tts_config),
                   !.pathA = SpeakPath(probe.dataA, probe.tts_config),
                   !.pathB = SpeakPath(probe.dataB, probe.tts_config)]
    /\ UNCHANGED <<daemonvars, sink, device, hook, cfgFile, loaded>>

\* the next pair of requests arrives
SpeakAgain ==
    /\ probe.pc = "done"
    /\ probe' = [probe EXCEPT !.pc = "input", !.sentA = None, !.sentB = None,
                              !.pathA = None, !.pathB = None]
    /\ UNCHANGED <<daemonvars, sink, device, hook, cfgFile, loaded>>

TextNext ==
    \/ SpeakBoth
    \/ SpeakAgain

TextSpec == TextInit /\ [][TextNext]_vars

(***************************************************************************)
(* get_cache_path on pairs of (text, voice, style, mode, language).        *)
(***************************************************************************)
\* values of the components: texts with and without the separator, and for
\* the options a configuration document can also give null, the text "None",
\* the empty text and the separator alone
KeyTexts == {<<"a">>, <<"a", ":">>}
KeyVoices == {Aoede, <<>>, <<":">>, None, <<"N", "o", "n", "e">>}
KeyStyles == {asmr, <<>>}
KeyLanguages == {russian, <<>>}

KeyTuples ==
    {<<t, v, s, summary, l>> :
        t \in KeyTexts, v \in KeyVoices, s \in KeyStyles, l \in KeyLanguages}

\* the configuration that holds the four options of a tuple
KeyConfig(tuple) ==
    [DEFAULT_CONFIG EXCEPT !.voice = tuple[2], !.style = tuple[3],
                           !.mode = tuple[4], !.language = tuple[5]]

KeyInit ==
    /\ Quiet
    /\ sink = Absent
    /\ device = Absent
    /\ hook = Absent
    /\ cfgFile = Absent
    /\ loaded = Absent
    /\ \E a \in KeyTuples, b \in KeyTuples :
         probe = [pc |-> "input", tupleA |-> a, tupleB |-> b,
                  keyA |-> None, keyB |-> None, againA |-> None]

\* get_cache_path is called for both tuples, and once more for the first
KeyBoth ==
    /\ probe.pc = "input"
    /\ probe' = [probe EXCEPT
                   !.pc = "done",
                   !.keyA = get_cache_path(probe.tupleA[1], KeyConfig(probe.tupleA)),
                   !.keyB = get_cache_path(probe.tupleB[1], KeyConfig(probe.tupleB)),
                   !.againA = get_cache_path(probe.tupleA[1], KeyConfig(probe.tupleA))]
    /\ UNCHANGED <<daemonvars, sink, device, hook, cfgFile, loaded>>

KeyAgain ==
    /\ probe.pc = "done"
    /\ probe' = [probe EXCEPT !.pc = "input", !.keyA = None, !.keyB = None,
                              !.againA = None]
    /\ UNCHANGED <<daemonvars, sink, device, hook, cfgFile, loaded>>

KeyNext ==
    \/ KeyBoth
    \/ KeyAgain

KeySpec == KeyInit /\ [][KeyNext]_vars

(***************************************************************************)
(* config_changed and get_cache_path on pairs of configurations.           *)
(***************************************************************************)
DriftInit ==
    /\ Quiet
    /\ sink = Absent
    /\ device = Absent
    /\ hook = Absent
    /\ cfgFile = Absent
    /\ loaded = Absent
    /\ \E a \in Docs, b \in Docs, text \in Texts(MaxCut) \ {<<>>} :
         probe = [pc |-> "input", configA |-> load_config(a),
                  configB |-> load_config(b), text |-> text,
                  drift |-> None, pathA |-> None, pathB |-> None]

\* a text is synthesized under the first configuration, and the same text is
\* requested under the second: whether the second is a drift from the first,
\* and the two cache paths
DriftBoth ==
    /\ probe.pc = "input"
    /\ probe' = [probe EXCEPT
                   !.pc = "done",
                   !.drift = ConfigChanged(probe.configA, probe.configB),
                   !.pathA = get_cache_path(probe.text, probe.configA),
                   !.pathB = get_cache_path(probe.text, probe.configB)]
    /\ UNCHANGED <<daemonvars, sink, device, hook, cfgFile, loaded>>

DriftAgain ==
    /\ probe.pc = "done"
    /\ probe' = [probe EXCEPT !.pc = "input", !.drift = None, !.pathA = None,
                              !.pathB = None]
    /\ UNCHANGED <<daemonvars, sink, device, hook, cfgFile, loaded>>

DriftNext ==
    \/ DriftBoth
    \/ DriftAgain

DriftSpec == DriftInit /\ [][DriftNext]_vars

(***************************************************************************)
(* handle_client's read and decode, on payloads of one-byte and two-byte   *)
(* characters.                                                             *)
(***************************************************************************)
\* the longest payload, in characters
MaxPayload == 5

\* the size of handle_client's read, 4096 in the source, scaled to the payloads
READ_SIZE == 4

\* characters: a letter and a blank of one byte each, and "E", a character
\* of two bytes
PayloadChars == {"a", " ", "E"}

RECURSIVE PayloadsUpTo(_)
PayloadsUpTo(n) ==
    IF n = 0 THEN {<<>>}
    ELSE PayloadsUpTo(n - 1) \cup
         {Append(t, c) : t \in {u \in PayloadsUpTo(n - 1) : Len(u) = n - 1},
                         c \in PayloadChars}

\* text.encode('utf-8') in the client
RECURSIVE Encode(_)
Encode(text) ==
    IF text = <<>> THEN <<>>
    ELSE (IF Head(text) = "E" THEN <<"E1", "E2">> ELSE <<Head(text)>>)
         \o Encode(Tail(text))

\* data.decode('utf-8'): the text, or "raises" when a lead byte is not
\* followed by its continuation byte or a continuation byte stands alone
RECURSIVE Decode(_)
Decode(data) ==
    IF data = <<>> THEN <<>>
    ELSE IF Head(data) = "E1"
         THEN IF Len(data) >= 2 /\ data[2] = "E2"
              THEN LET rest == Decode(SubSeq(data, 3, Len(data))) IN
                   IF rest = "raises" THEN "raises" ELSE <<"E">> \o rest
              ELSE "raises"
    ELSE IF Head(data) = "E2" THEN "raises"
    ELSE LET rest == Decode(Tail(data)) IN
         IF rest = "raises" THEN "raises" ELSE <<Head(data)>> \o rest

ReadInit ==
    /\ Quiet
    /\ sink = Absent
    /\ device = Absent
    /\ hook = Absent
    /\ cfgFile = Absent
    /\ loaded = Absent
    /\ \E payload \in PayloadsUpTo(MaxPayload) :
         probe = [pc |-> "connected", payload |-> payload, data |-> None,
                  outcome |-> "none", text |-> None]

\* reader.read(4096) returns the first bytes of what the client wrote
ReadData ==
    /\ probe.pc = "connected"
    /\ probe' = [probe EXCEPT !.pc = "read",
                              !.data = Prefix(Encode(probe.payload), READ_SIZE)]
    /\ UNCHANGED <<daemonvars, sink, device, hook, cfgFile, loaded>>

\* no data: nothing is done
ReadNothing ==
    /\ probe.pc = "read"
    /\ probe.data = <<>>
    /\ probe' = [probe EXCEPT !.pc = "closed", !.outcome = "nodata"]
    /\ UNCHANGED <<daemonvars, sink, device, hook, cfgFile, loaded>>

\* decode raises UnicodeDecodeError: "Client handler error" is logged and the
\* connection closed
ReadDecodeRaises ==
    /\ probe.pc = "read"
    /\ probe.data # <<>>
    /\ Decode(probe.data) = "raises"
    /\ probe' = [probe EXCEPT !.pc = "closed", !.outcome = "dropped"]
    /\ UNCHANGED <<daemonvars, sink, device, hook, cfgFile, loaded>>

\* the text is decoded, stripped and given to speak(), which returns at once
\* on an empty text
ReadSpeak ==
    /\ probe.pc = "read"
    /\ probe.data # <<>>
    /\ Decode(probe.data) # "raises"
    /\ probe' = [probe EXCEPT
                   !.pc = "closed",
                   !.text = Strip(Decode(probe.data)),
                   !.outcome = IF Strip(Strip(Decode(probe.data))) = <<>>
                               THEN "noop" ELSE "spoken"]
    /\ UNCHANGED <<daemonvars, sink, device, hook, cfgFile, loaded>>

ReadNext ==
    \/ ReadData
    \/ ReadNothing
    \/ ReadDecodeRaises
    \/ ReadSpeak

ReadSpec == ReadInit /\ [][ReadNext]_vars

(***************************************************************************)
(* The daemon's tasks under a configuration file that load_config cannot   *)
(* load: run(), the connect loop and one handler task, with the scheduling *)
(* of the event loop.  cfgFile is Absent while CONFIG_PATH holds the       *)
(* document configDoc.                                                     *)
(***************************************************************************)
\* files on which load_config raises
BrokenFiles ==
    {[kind |-> "nonobject", value |-> "array"],
     [kind |-> "undecodable", value |-> "none"]}

\* load_config() raises on what CONFIG_PATH holds now
Raises ==
    /\ cfgFile # Absent
    /\ load_config_file(cfgFile).raises # "none"

LoopInit ==
    /\ configDoc \in InitDocs
    /\ InitDaemon
    /\ InitAux
    /\ proc = "run"
    /\ apiKey = TRUE
    /\ pidFile = "absent"
    /\ sockNode = "absent"
    /\ found = [pid |-> "absent", sock |-> "absent"]
    /\ limit = MaxConnects + 1

\* the user overwrites CONFIG_PATH with a file load_config raises on
BreakConfig(file) ==
    /\ cfgFile = Absent
    /\ cfgFile' = file
    /\ UNCHANGED <<daemonvars, sink, device, hook, loaded, probe>>

\* the user writes the document back
RepairConfig ==
    /\ cfgFile # Absent
    /\ cfgFile' = Absent
    /\ UNCHANGED <<daemonvars, sink, device, hook, loaded, probe>>

\* run(): the PID is written and the listener bound, then load_config raises:
\* run()'s finally and main()'s finally call cleanup() and the process exits
\* on the exception
RunLoadRaises ==
    /\ proc = "run"
    /\ pcRun = "init"
    /\ Raises
    /\ running' = TRUE
    /\ pcRun' = "done"
    /\ proc' = "exited"
    /\ exitCode' = 1
    /\ UNCHANGED <<cvars, session, session_cm, current_config, reconnect_delay, cms,
                   runCm, lvars, handler, cache, nRequests, completed, gvars, fvars,
                   apiKey, found, pcShut, shutCm, sink, device, hook, cfgFile,
                   loaded, probe, limit>>

\* maintain_connection(): load_config raises inside the loop, nothing catches
\* it and the task ends with the exception; run() never looks at the task
LoopLoadRaises ==
    /\ pcLoop = "check"
    /\ running
    /\ session = 0
    /\ Raises
    /\ pcLoop' = "dead"
    /\ UNCHANGED <<xvars, cvars, dvars, cms, pcRun, runCm, loopCm, loopDelay,
                   handler, cache, nRequests, completed, gvars>>

\* speak(): load_config raises; handle_client logs "Client handler error" and
\* closes the connection
AcceptLoadRaises(h, data) ==
    /\ Accept(h)
    /\ Strip(data) # <<>>
    /\ Raises
    /\ nRequests < MaxRequests
    /\ nRequests' = nRequests + 1
    /\ Set(h, Finished(Idle, "loadfail"))
    /\ UNCHANGED <<xvars, cvars, dvars, cms, pcRun, runCm, lvars, cache, completed,
                   gvars>>

\* the steps of run()
RunTask ==
    \/ ~Raises /\ RunStart
    \/ RunLoadRaises
    \/ proc = "run" /\ RunConnected
    \/ proc = "run" /\ RunConnectFailed

\* the steps of maintain_connection()
LoopTask ==
    \/ proc = "run" /\ ~Raises /\ LoopConnect
    \/ proc = "run" /\ LoopLoadRaises
    \/ proc = "run" /\ LoopConnected
    \/ proc = "run" /\ LoopConnectFailed
    \/ proc = "run" /\ LoopWake

\* the steps of one handle_client task
HandlerTask(h) ==
    \/ proc = "run" /\ \E data \in Payloads : AcceptNoText(h, data)
    \/ proc = "run" /\ \E data \in Payloads : AcceptLoadRaises(h, data)
    \/ proc = "run" /\ ~Raises /\ \E data \in Payloads : AcceptHit(h, data, FALSE)
    \/ proc = "run" /\ ~Raises /\ \E data \in Payloads : AcceptDrift(h, data, FALSE)
    \/ proc = "run" /\ ~Raises /\ \E data \in Payloads : AcceptConnect(h, data, FALSE)
    \/ proc = "run" /\ ~Raises /\ \E data \in Payloads : AcceptSend(h, data, FALSE)
    \/ proc = "run" /\ DriftClosed(h)
    \/ proc = "run" /\ Connected(h)
    \/ proc = "run" /\ ConnectFailed(h)
    \/ proc = "run" /\ RecvChunk(h, <<1>>)
    \/ proc = "run" /\ TurnComplete(h)
    \/ proc = "run" /\ StreamEnd(h)
    \/ proc = "run" /\ RaiseClose(h)
    \/ proc = "run" /\ RaiseClear(h)
    \/ proc = "run" /\ ErrClosed(h)
    \/ proc = "run" /\ PlayDone(h)
    \/ proc = "run" /\ Closed(h)

LoopNext ==
    \/ \E doc \in Docs : EditConfig(doc)
    \/ \E file \in BrokenFiles : BreakConfig(file)
    \/ RepairConfig
    \/ RunTask
    \/ LoopTask
    \/ HandlerTask("h1")

\* the event loop runs every task that can take a step; a sleep ends, and the
\* remote end answers a handshake
LoopSpec ==
    /\ LoopInit
    /\ [][LoopNext]_vars
    /\ WF_pcRun(RunTask)
    /\ WF_pcLoop(LoopTask)

(***************************************************************************)
(* Properties.                                                             *)
(***************************************************************************)
\* handlers inside synthesis: between sending the text and the end of the stream
InSynthesis ==
    {h \in Handlers : handler[h].pc = "streaming"}

\* handlers inside speak()
InSpeak ==
    {h \in Handlers : handler[h].pc \in {"closing_session", "connecting", "streaming",
                                         "err_closing", "playing", "hit"}}

\* C1: requests are serialized: at most one request is inside synthesis at a
\* time, and no connection's speak begins before the current request's speak
\* has finished.
C1_Serialized ==
    /\ Cardinality(InSynthesis) <= 1
    /\ Cardinality(InSpeak) <= 1

\* C2: at most one live remote session (opened and not yet closed) exists in
\* every reachable state.
C2_AtMostOneSession ==
    Cardinality(Live) <= 1

\* C3: whenever a session is present, current_config is present and its voice,
\* style, mode, language and resolved custom-style text equal the values used
\* to open that session.
C3_ActiveConfigMatches ==
    session # 0 =>
        /\ current_config # NoConfig
        /\ SessionShape(current_config) = SessionShape(cms[session].config)

\* C4: a cache-miss request whose configuration differs from the active one in
\* voice, style, mode, language or resolved style text opens a new session only
\* after the session it found was closed, and never sends its text on the
\* session it found.
C4_DriftRebuilds ==
    \A h \in Handlers :
        handler[h].differs =>
            /\ (handler[h].pc = "connecting" /\ handler[h].old # 0)
                   => cms[handler[h].old].state # "open"
            /\ (handler[h].pc = "streaming" /\ handler[h].old # 0)
                   => handler[h].sess # handler[h].old

\* C5: a cache-miss request that finds a session and whose configuration does
\* not differ from the active one in voice, style, mode, language or resolved
\* style text reuses the session: it starts no close and no connect, and sends
\* its text on the session it found.
C5_OtherOptionsReuse ==
    \A h \in Handlers :
        (/\ handler[h].pc \in {"closing_session", "connecting", "streaming"}
         /\ handler[h].old # 0
         /\ ~handler[h].differs)
            => /\ handler[h].pc = "streaming"
               /\ handler[h].sess = handler[h].old
               /\ handler[h].cm = 0

\* C5 happens: a request whose configuration is not the recorded one, yet
\* differs from it in max_chars and custom_styles only, streams on the session
\* it found
C5_Witness ==
    \E h \in Handlers :
        /\ handler[h].pc = "streaming"
        /\ handler[h].old # 0
        /\ handler[h].sess = handler[h].old
        /\ ~handler[h].differs
        /\ current_config # NoConfig
        /\ handler[h].tts_config # current_config
        /\ handler[h].tts_config.max_chars # current_config.max_chars

\* C6: a cache file is written only after turn_complete was received: a request
\* whose audio was saved (and is being played) has seen turn_complete.
C6_CacheOnlyAfterTurnComplete ==
    \A h \in Handlers :
        handler[h].pc = "playing" => handler[h].turn_complete

\* C7: once a request has completed successfully, a later request with the same
\* trimmed and truncated text and the same voice, style, mode and language is
\* served from the cache: it is a hit, uses no session and no context manager,
\* and the entry it plays is in the cache.
C7_ServedFromCache ==
    \A h \in Handlers :
        handler[h].served =>
            /\ handler[h].pc = "hit"
            /\ handler[h].sess = 0
            /\ handler[h].cm = 0
            /\ get_cache_path(handler[h].text, handler[h].tts_config) \in DOMAIN cache

\* C7 happens: a request is served from the cache under a configuration whose
\* max_chars differs from the defaults
C7_Witness ==
    \E h \in Handlers :
        /\ handler[h].served
        /\ handler[h].pc = "hit"
        /\ handler[h].tts_config.max_chars = 1

\* the delay before the retry that follows the k-th consecutive failed connect
RECURSIVE Schedule(_)
Schedule(k) ==
    IF k = 1 THEN 1 ELSE Min(2 * Schedule(k - 1), 30)

\* C8: the delays between consecutive failed connects of run() and the connect
\* loop are 1, 2, 4, 8, 16, 30, 30, ... seconds, and reconnect_delay stays
\* within 1..30.
C8_BackoffSchedule ==
    /\ reconnect_delay \in 1..30
    /\ loopFails >= 2 => lastGap = Schedule(loopFails - 1)

\* C9: when the send or the response stream raised, the session the request
\* used is closed once the error path has run.
C9_ErrorClosesSession ==
    \A h \in Handlers :
        (handler[h].pc = "close" /\ handler[h].result = "error")
            => cms[handler[h].sess].state # "open"

\* the bytes of a sequence of chunks, in order
RECURSIVE Flatten(_)
Flatten(chunks) ==
    IF chunks = <<>> THEN <<>>
    ELSE Flatten(SubSeq(chunks, 1, Len(chunks) - 1)) \o chunks[Len(chunks)]

RECURSIVE SumLen(_)
SumLen(chunks) ==
    IF chunks = <<>> THEN 0 ELSE Len(Head(chunks)) + SumLen(Tail(chunks))

\* C10: within one synthesis the chunks fed to the sink are the chunks received,
\* in receive order; the collector holds the same chunks; and the PCM returned
\* and written to the cache is their concatenation in that order: the cached
\* frames equal the fed bytes and their length is the sum of the chunk sizes.
C10_FanOutInOrder ==
    \A h \in Handlers :
        /\ handler[h].player => handler[h].fed = handler[h].stream
        /\ handler[h].audio_chunks = handler[h].stream
        /\ handler[h].pc = "playing" =>
            LET wav == cache[get_cache_path(handler[h].text, handler[h].tts_config)] IN
            /\ handler[h].pcm_data = Flatten(handler[h].stream)
            /\ wav.frames = Flatten(handler[h].stream)
            /\ handler[h].player => wav.frames = Flatten(handler[h].fed)
            /\ Len(wav.frames) = SumLen(handler[h].stream)
            /\ wav.nchannels = 1 /\ wav.framerate = 24000 /\ wav.sampwidth = 2

\* C10 happens: two chunks of different sizes were fed and saved
C10_Witness ==
    \E h \in Handlers :
        /\ handler[h].pc = "playing"
        /\ handler[h].player
        /\ handler[h].fed = <<<<2, 3>>, <<1>>>>
        /\ handler[h].turn_complete

\* a byte string without its zero bytes (the padding)
RECURSIVE NonZero(_)
NonZero(data) ==
    IF data = <<>> THEN <<>>
    ELSE IF Head(data) = 0 THEN NonZero(Tail(data))
    ELSE <<Head(data)>> \o NonZero(Tail(data))

\* C11: the sink never truncates: the bytes the callback wrote to the device
\* are, padding apart, the fed bytes in order: always a prefix of them, and all
\* of them once the queue is empty.
C11_NeverTruncates ==
    LET played == NonZero(device.out)
        fedBytes == Flatten(device.fedAll) IN
    /\ Len(played) <= Len(fedBytes)
    /\ played = SubSeq(fedBytes, 1, Len(played))
    /\ sink.queue = <<>> => played = fedBytes

\* C12: the output stream is started at most once; never with zero chunks fed;
\* by feed exactly when the number of chunks fed reaches pre_buffer_chunks; and
\* by finish when the pre-buffer was not met and at least one chunk was fed.
C12_StartOnce ==
    /\ device.starts <= 1
    /\ sink.started <=> device.starts = 1
    /\ sink.started <=> sink.stream = "running"
    /\ sink.chunks_received = 0 => ~sink.started
    /\ sink.chunks_received >= sink.pre_buffer_chunks => sink.started
    /\ (sink.finished /\ sink.chunks_received > 0) => sink.started
    /\ device.startedBy = "feed" => device.startedAt = sink.pre_buffer_chunks
    /\ device.startedBy = "finish" =>
           /\ device.startedAt >= 1
           /\ device.startedAt < sink.pre_buffer_chunks
           /\ sink.finished
    /\ sink.started => device.startedBy \in {"feed", "finish"}

\* C12 happens: finish started a sink whose pre-buffer of three chunks was not
\* met, and the device has pulled from it
C12_Witness ==
    /\ sink.pre_buffer_chunks = 3
    /\ sink.finished
    /\ sink.chunks_received = 2
    /\ device.startedBy = "finish"
    /\ device.starts = 1
    /\ device.pulls > 0

\* C13: when the launch finds a PID marker that names a live process, whether
\* or not this user may signal it, the new daemon refuses to run: it exits with
\* code 1 and leaves the PID marker and the socket node as it found them.
C13_SingleInstance ==
    found.pid \in {"live", "foreign"} =>
        /\ proc \in {"start", "refused", "nokey"}
        /\ proc # "start" => exitCode = 1
        /\ pidFile = found.pid
        /\ sockNode = found.sock

\* C14: once the daemon has handled a signal and exited, running is false, no
\* session is held, and neither the PID marker nor the socket node exists.
C14_CleanShutdown ==
    proc = "exited" =>
        /\ running = FALSE
        /\ session = 0
        /\ pidFile = "absent"
        /\ sockNode = "absent"

\* C20: every close path leaves both the session and the active configuration
\* absent: whenever no session is present and no handshake is under way (after
\* a close for drift, after a synthesis error, after a failed handshake),
\* current_config is absent.
C20_ClosedClearsConfig ==
    (session = 0 /\ \A id \in 1..Len(cms) : cms[id].state # "pending")
        => current_config = NoConfig

\* C15: the hook client exits with code 0 for every input on standard input
\* and every socket outcome.
C15_HookExitsZero ==
    hook.pc = "exited" => hook.exit = 0

\* C16: load_config never raises: a malformed document gives exactly the
\* defaults, and an object gives the defaults overridden by the keys it holds.
C16_LoadNeverRaises ==
    loaded # Absent =>
        /\ loaded.raises = "none"
        /\ cfgFile.kind # "object" => loaded.config = DEFAULT_CONFIG
        /\ cfgFile.kind = "object" =>
               /\ DOMAIN loaded.config = DOMAIN DEFAULT_CONFIG
               /\ \A k \in DOMAIN DEFAULT_CONFIG :
                      loaded.config[k] = IF k \in DOMAIN cfgFile.value
                                         THEN cfgFile.value[k]
                                         ELSE DEFAULT_CONFIG[k]

\* the first n characters of a text without its surrounding whitespace
TrimCut(data, n) ==
    LET t == Strip(data) IN
    [i \in 1..Min(Len(t), n) |-> t[i]]

\* C17: the text is trimmed and cut to at most max_chars characters before both
\* hashing and synthesis: the text sent is the cut text, the cache path is
\* computed from the text sent, and two payloads whose trimmed forms agree on
\* their first max_chars characters get the same cache path.
C17_TruncatedBeforeHash ==
    probe.pc = "done" =>
        LET n == probe.tts_config.max_chars IN
        /\ probe.sentA # None =>
               /\ Len(probe.sentA) <= n
               /\ probe.sentA = TrimCut(probe.dataA, n)
               /\ probe.pathA = get_cache_path(probe.sentA, probe.tts_config)
        /\ (/\ probe.sentA # None
            /\ probe.sentB # None
            /\ TrimCut(probe.dataA, n) = TrimCut(probe.dataB, n))
               => probe.pathA = probe.pathB

\* C17 happens: two payloads with different trimmed forms that agree on their
\* first max_chars characters were given the same path
C17_Witness ==
    /\ probe.pc = "done"
    /\ probe.sentA # None
    /\ probe.sentB # None
    /\ Strip(probe.dataA) # Strip(probe.dataB)
    /\ Len(Strip(probe.dataA)) > probe.tts_config.max_chars
    /\ probe.dataA # Strip(probe.dataA)
    /\ probe.pathA = probe.pathB

\* C19: get_cache_path is deterministic, and the string it hashes is injective
\* on (text, voice, style, mode, language): two different tuples never compose
\* to the same key string.
C19_KeyInjective ==
    probe.pc = "done" =>
        /\ probe.againA = probe.keyA
        /\ probe.tupleA # probe.tupleB => probe.keyA # probe.keyB

\* C18: a failed write of the cache file is contained: the audio of that
\* request is still played from the PCM in memory, and no entry is left at the
\* cache path that a later request would take for a hit.
C18_SaveFailureContained ==
    \A h \in Handlers :
        handler[h].result = "savefail" =>
            /\ handler[h].pc = "playing"
            /\ get_cache_path(handler[h].text, handler[h].tts_config)
                   \notin DOMAIN cache

\* C21: every failed handshake doubles reconnect_delay, capped at 30, whichever
\* path made the connect: in the step in which a handshake fails the delay is
\* doubled, or it is the connect loop's and the loop doubles it after its sleep.
C21_FailedHandshakeDoubles ==
    [][(\E id \in 1..Len(cms) :
            /\ cms[id].state = "pending"
            /\ cms'[id].state = "failed")
        => \/ reconnect_delay' = Min(reconnect_delay * 2, max_reconnect_delay)
           \/ pcLoop = "connecting" /\ pcLoop' = "backoff"]_vars

\* C28: whenever a session is present, session_cm is the context manager it
\* was obtained from, and whenever session_cm is absent the session is absent.
C28_SessionMatchesManager ==
    /\ session # 0 => session_cm = session
    /\ session_cm = 0 => session = 0

\* C24: the sink is always finalized: when a synthesis that was given a sink
\* has returned audio, whatever ended its stream, finish was signaled on the
\* sink.
C24_SinkFinalized ==
    \A h \in Handlers :
        (handler[h].player /\ handler[h].pc = "playing") => handler[h].finished

\* C27: a cache entry that cannot be read as a WAV is treated as missing: a
\* request that finds one at its cache path goes on to synthesis.
C27_UnreadableIsMiss ==
    [][\A h \in Handlers :
         (/\ handler[h].pc = "idle"
          /\ handler'[h].text # <<>>
          /\ get_cache_path(handler'[h].text, handler'[h].tts_config) \in DOMAIN cache
          /\ cache[get_cache_path(handler'[h].text, handler'[h].tts_config)] = Unreadable)
            => handler'[h].pc \in {"closing_session", "connecting", "streaming"}]_vars

\* C25: the cache key separates everything that shapes the session: when the
\* second configuration is a drift from the first, the cache paths of the same
\* text under the two differ.
C25_KeySeparatesDrift ==
    (probe.pc = "done" /\ probe.drift = TRUE) => probe.pathA # probe.pathB

\* the longest prefix of a text whose encoding fits in n bytes
RECURSIVE Fitting(_, _)
Fitting(text, n) ==
    IF text = <<>> THEN <<>>
    ELSE LET size == IF Head(text) = "E" THEN 2 ELSE 1 IN
         IF size > n THEN <<>>
         ELSE <<Head(text)>> \o Fitting(Tail(text), n - size)

\* C26: an oversized payload is cut at the read and still processed: when the
\* payload is longer than the read and the characters that fit in the read are
\* not all blank, the daemon speaks them, also when the cut falls inside a
\* character.
C26_OversizedStillSpoken ==
    (/\ probe.pc = "closed"
     /\ Len(Encode(probe.payload)) > READ_SIZE
     /\ Strip(Fitting(probe.payload, READ_SIZE)) # <<>>)
        => /\ probe.outcome = "spoken"
           /\ probe.text = Strip(Fitting(probe.payload, READ_SIZE))

\* how far a request has come
Phase(pc) ==
    CASE pc = "idle" -> 0
      [] pc = "closing_session" -> 1
      [] pc = "connecting" -> 2
      [] pc = "streaming" -> 3
      [] pc = "err_closing" -> 4
      [] OTHER -> 5

\* C22: within a request the synthesizer does not retry.  A request never goes
\* back to an earlier phase, so it connects at most once and sends at most
\* once; a handler creates a context manager only on entering its connect; a
\* failed connect and a transport failure end the request with no audio; and a
\* miss that finds no session goes to its connect (after the teardown of a
\* drifted manager, if any) whatever the connect loop is doing.
C22_NoRetryInRequest ==
    [][\A h \in Handlers :
         LET a == handler[h]
             b == handler'[h]
         IN  /\ (b.pc # a.pc /\ b.pc # "idle") => Phase(b.pc) > Phase(a.pc)
             /\ (b.cm # a.cm /\ b.cm > Len(cms))
                    => /\ a.pc \in {"idle", "closing_session"}
                       /\ b.pc = "connecting"
                       /\ Len(cms') = Len(cms) + 1
             /\ (a.pc = "connecting" /\ cms'[a.cm].state = "failed")
                    => /\ b.pc = "close"
                       /\ b.result = "absent"
                       /\ b.pcm_data = None
                       /\ Len(cms') = Len(cms)
             /\ (a.pc \in {"streaming", "err_closing"} /\ b.result = "error")
                    => /\ b.pc = "close"
                       /\ b.pcm_data = None
                       /\ \/ cms' = cms
                          \/ a.pc = "err_closing" /\ cms' = Exited(a.cm)
             /\ (a.pc = "idle" /\ b.pc \notin {"idle", "hit", "close"} /\ session = 0)
                    => b.pc \in {"connecting", "closing_session"}]_vars

\* a request that found no session is connecting while the connect loop sleeps
\* its backoff delay
C22_Witness ==
    /\ pcLoop = "backoff"
    /\ \E h \in Handlers :
         /\ handler[h].pc = "connecting"
         /\ handler[h].old = 0
         /\ cms[handler[h].cm].state = "pending"

\* C23: the connect loop stays alive while the daemon runs: whenever the daemon
\* is serving with running true and no session, the loop eventually is in a
\* connect attempt or a session is present (or the connections of the
\* behaviour are used up), whatever CONFIG_PATH holds.
C23_LoopKeepsConnecting ==
    (proc = "run" /\ pcRun = "serving" /\ running /\ session = 0)
        ~> (pcLoop = "connecting" \/ session # 0 \/ Len(cms) >= limit)

====
